---- MODULE Spec2Model ----
(***************************************************************************)
(* Model of the voice-cloning text-to-speech pipeline: TextProcessor       *)
(* (src/src/text_processor.py), AudioProcessor (src/src/audio_processor.py)*)
(* TTSEngine (src/src/tts_engine.py) and VoiceCloner                       *)
(* (src/src/voice_cloner.py).                                              *)
(*                                                                         *)
(* A text is a sequence of characters; a character is a one-character      *)
(* string.  A path of the sound directory is a natural number: number k    *)
(* stands for the k-th path in lexicographic order.  A waveform is         *)
(* represented by its length in samples, a stitched waveform by the        *)
(* sequence of blocks (segments and pauses) it is concatenated from.       *)
(***************************************************************************)
EXTENDS Integers, Sequences, FiniteSets, TLC

----------------------------------------------------------------------------
(* Bounds of the model                                                     *)

\* Number of tokens an input text of the text processor is built from.
MaxTokens == 5
\* Largest max_length passed to preprocess_for_tts in the text specification.
MaxMaxLength == 8
\* Number of paths of the sound directory in the selection specification.
NumSelectFiles == 3
\* Largest max_samples passed to select_best_voice_samples.
MaxMaxSamples == 2
\* Number of paths of the sound directory in the voice cloner specification.
NumFiles == 6
\* Largest number of sentences of a request text.
MaxSentences == 3
\* Number of characters of a sentence of a request text.
SentenceLen == 250
\* Largest length (in samples) of a waveform returned by the backend.
MaxSegLen == 2
\* Longest array given to normalize_audio.
MaxAudioLen == 3
\* Largest absolute value of a sample, in amplitude units.
MaxAmp == 2
\* Number of threads that call synthesize_text.
NumCallers == 2
\* Largest number of sentences of a text given to synthesize_text.
MaxAppSentences == 1

----------------------------------------------------------------------------
(* Characters.  The letters i-dot-below, e-circumflex-acute and i-tilde of  *)
(* the abbreviation table are written with the Latin-1 letters "ì", "ê"    *)
(* and "î".                                                                *)

\* Characters matched by \s.
Whitespace == {" ", "\t", "\n"}

\* Terminal punctuation of the sentence splitter, [.!?].
Terminal == {".", "!", "?"}

\* Punctuation kept by _clean_special_chars.
Punctuation == {".", ",", "!", "?", ";", ":", "(", ")", "-", "'", "\""}

LowerLetters == {"a", "b", "c", "d", "e", "g", "h", "i", "m", "n", "r", "s", "t",
                 "ô", "à", "ì", "ê", "î"}

UpperLetters == {"A", "B", "C", "D", "E", "G", "H", "I", "M", "N", "R", "S", "T",
                 "Ô", "À", "Ì"}

\* Characters matched by \w (letters of the model's alphabet, digits, "_").
WordChars == LowerLetters \cup UpperLetters \cup {"0", "1", "_"}

IsSpace(c) == c \in Whitespace

IsWord(c) == c \in WordChars

\* Case folding used by re.IGNORECASE.
Lower(c) ==
  CASE c = "A" -> "a" [] c = "B" -> "b" [] c = "C" -> "c" [] c = "D" -> "d"
    [] c = "E" -> "e" [] c = "G" -> "g" [] c = "H" -> "h" [] c = "I" -> "i"
    [] c = "M" -> "m" [] c = "N" -> "n" [] c = "R" -> "r" [] c = "S" -> "s"
    [] c = "T" -> "t" [] c = "Ô" -> "ô" [] c = "À" -> "à" [] c = "Ì" -> "ì"
    [] OTHER -> c

----------------------------------------------------------------------------
(* Sequence helpers                                                        *)

MinOf(S) == CHOOSE m \in S : \A x \in S : m <= x

MaxOf(S) == 0 - MinOf({0 - x : x \in S})

Indices(s) == [i \in 1..Len(s) |-> i]

\* str.strip(): remove leading and trailing whitespace.
Strip(s) ==
  LET solid == {i \in 1..Len(s) : ~IsSpace(s[i])}
  IN  IF solid = {} THEN <<>> ELSE SubSeq(s, MinOf(solid), MaxOf(solid))

\* A text without any non-whitespace character (the empty text included).
IsBlank(t) == \A i \in 1..Len(t) : IsSpace(t[i])

\* Last index of the maximal run of characters of set P that starts at i.
RunEnd(s, i, P) ==
  CHOOSE j \in i..Len(s) :
    /\ \A k \in i..j : s[k] \in P
    /\ j = Len(s) \/ s[j + 1] \notin P

----------------------------------------------------------------------------
(* TextProcessor.normalize_text                                            *)

\* re.sub(r"\s+", " ", s): every maximal whitespace run becomes one space.
CollapseWhitespace(s) ==
  LET kept == SelectSeq(Indices(s),
                        LAMBDA i : ~IsSpace(s[i]) \/ i = 1 \/ ~IsSpace(s[i - 1]))
  IN  [j \in 1..Len(kept) |-> IF IsSpace(s[kept[j]]) THEN " " ELSE s[kept[j]]]

\* _normalize_diacritics is a placeholder that returns its argument.
NormalizeDiacritics(s) == s

\* self.abbreviations, in insertion order.
Abbreviations ==
  << <<<<"Ô", "n", "g">>, <<"ô", "n", "g">>>>,
     <<<<"B", "à">>, <<"b", "à">>>>,
     <<<<"A", "n", "h">>, <<"a", "n", "h">>>>,
     <<<<"C", "h", "ì">>, <<"c", "h", "ì">>>>,
     <<<<"E", "m">>, <<"e", "m">>>>,
     <<<<"D", "r", ".">>, <<"t", "i", "ê", "n", " ", "s", "î">>>>,
     <<<<"M", "r", ".">>, <<"ô", "n", "g">>>>,
     <<<<"M", "r", "s", ".">>, <<"b", "à">>>>,
     <<<<"M", "s", ".">>, <<"c", "ô">>>> >>

\* Whether the character at index i exists and is a word character.
IsWordAt(s, i) == i >= 1 /\ i <= Len(s) /\ IsWord(s[i])

\* \b between index p-1 and index p.
WordBoundary(s, p) == IsWordAt(s, p - 1) # IsWordAt(s, p)

\* \b abbrev \b matches at index i, ignoring case.
AbbrevMatchAt(s, i, abbrev) ==
  /\ i >= 1
  /\ i + Len(abbrev) - 1 <= Len(s)
  /\ \A k \in 1..Len(abbrev) : Lower(s[i + k - 1]) = Lower(abbrev[k])
  /\ WordBoundary(s, i)
  /\ WordBoundary(s, i + Len(abbrev))

\* re.sub(pattern, expansion, s): leftmost non-overlapping matches from index from.
RECURSIVE SubAbbrev(_, _, _, _)
SubAbbrev(s, from, abbrev, expansion) ==
  LET matches == {i \in from..Len(s) : AbbrevMatchAt(s, i, abbrev)}
  IN  IF matches = {}
      THEN SubSeq(s, from, Len(s))
      ELSE LET m == MinOf(matches)
           IN  SubSeq(s, from, m - 1) \o expansion
                 \o SubAbbrev(s, m + Len(abbrev), abbrev, expansion)

\* The loop of _expand_abbreviations from table entry k on.
RECURSIVE ExpandFrom(_, _)
ExpandFrom(s, k) ==
  IF k > Len(Abbreviations)
  THEN s
  ELSE ExpandFrom(SubAbbrev(s, 1, Abbreviations[k][1], Abbreviations[k][2]), k + 1)

ExpandAbbreviations(s) == ExpandFrom(s, 1)

\* Characters outside the allow-list of _clean_special_chars are removed.
Allowed(c) == IsWord(c) \/ IsSpace(c) \/ c \in Punctuation

CleanSpecialChars(s) == SelectSeq(s, Allowed)

NormalizeText(text) ==
  IF text = <<>>
  THEN <<>>
  ELSE Strip(CleanSpecialChars(ExpandAbbreviations(
         NormalizeDiacritics(CollapseWhitespace(Strip(text))))))

----------------------------------------------------------------------------
(* TextProcessor.split_sentences                                           *)

\* [.!?]+\s+ matches starting at index i.
BoundaryStartsAt(s, i) ==
  /\ s[i] \in Terminal
  /\ LET j == RunEnd(s, i, Terminal)
     IN  j < Len(s) /\ IsSpace(s[j + 1])

\* Index of the last character of the match of [.!?]+\s+ that starts at i.
BoundaryEnd(s, i) == RunEnd(s, RunEnd(s, i, Terminal) + 1, Whitespace)

\* re.split(r"[.!?]+\s+", s), from index from on.
RECURSIVE SplitPieces(_, _)
SplitPieces(s, from) ==
  LET starts == {i \in from..Len(s) : BoundaryStartsAt(s, i)}
  IN  IF starts = {}
      THEN <<SubSeq(s, from, Len(s))>>
      ELSE LET m == MinOf(starts)
           IN  <<SubSeq(s, from, m - 1)>> \o SplitPieces(s, BoundaryEnd(s, m) + 1)

\* SplitSentences that keeps the pieces that are empty after strip().
SplitSentences_KeepEmpty(text) ==
  IF text = <<>>
  THEN <<>>
  ELSE LET pieces == SplitPieces(text, 1)
       IN  [k \in 1..Len(pieces) |-> Strip(pieces[k])]

SplitSentences(text) ==
  IF text = <<>>
  THEN <<>>
  ELSE LET pieces == SplitPieces(text, 1)
           stripped == [k \in 1..Len(pieces) |-> Strip(pieces[k])]
       IN  SelectSeq(stripped, LAMBDA p : p # <<>>)

----------------------------------------------------------------------------
(* TextProcessor.preprocess_for_tts                                        *)

\* The separator the packing loop inserts between two sentences of a chunk.
Separator == <<".", " ">>

\* normalized[i : i + max_length] for i in range(0, len(normalized), max_length)
FixedWidthSlices(normalized, max_length) ==
  LET n == (Len(normalized) + max_length - 1) \div max_length
  IN  [k \in 1..n |->
        SubSeq(normalized, (k - 1) * max_length + 1,
               IF k * max_length < Len(normalized) THEN k * max_length
                                                   ELSE Len(normalized))]

\* One iteration of "for sentence in sentences".  The state of the loop is
\* chunks and current_chunk; plain and current_plain are the same texts
\* without the separators the loop inserted.
PackStep(st, sentence, max_length) ==
  IF Len(st.current_chunk) + Len(sentence) + 1 <= max_length
  THEN IF st.current_chunk # <<>>
       THEN [st EXCEPT !.current_chunk = st.current_chunk \o Separator \o sentence,
                       !.current_plain = st.current_plain \o sentence]
       ELSE [st EXCEPT !.current_chunk = sentence,
                       !.current_plain = sentence]
  ELSE IF st.current_chunk # <<>>
       THEN [chunks |-> Append(st.chunks, st.current_chunk),
             plain |-> Append(st.plain, st.current_plain),
             current_chunk |-> sentence,
             current_plain |-> sentence]
       ELSE [st EXCEPT !.current_chunk = sentence,
                       !.current_plain = sentence]

\* The loop over sentences[k..], then the final "if current_chunk".
RECURSIVE PackFrom(_, _, _, _)
PackFrom(st, sentences, k, max_length) ==
  IF k > Len(sentences)
  THEN IF st.current_chunk # <<>>
       THEN [st EXCEPT !.chunks = Append(st.chunks, st.current_chunk),
                       !.plain = Append(st.plain, st.current_plain)]
       ELSE st
  ELSE PackFrom(PackStep(st, sentences[k], max_length), sentences, k + 1, max_length)

PackSentences(sentences, max_length) ==
  PackFrom([chunks |-> <<>>, plain |-> <<>>,
            current_chunk |-> <<>>, current_plain |-> <<>>],
           sentences, 1, max_length)

\* Which branch of preprocess_for_tts a text takes.
Branch(text, max_length) ==
  LET normalized == NormalizeText(text)
  IN  IF Len(normalized) <= max_length THEN "single"
      ELSE IF SplitSentences(normalized) = <<>> THEN "fixed"
      ELSE "packed"

\* PreprocessForTts with the single-chunk test "<" in place of "<=".
PreprocessForTts_StrictSingle(text, max_length) ==
  LET normalized == NormalizeText(text)
  IN  IF Len(normalized) < max_length
      THEN <<normalized>>
      ELSE LET sentences == SplitSentences(normalized)
           IN  IF sentences = <<>>
               THEN FixedWidthSlices(normalized, max_length)
               ELSE PackSentences(sentences, max_length).chunks

PreprocessForTts(text, max_length) ==
  LET normalized == NormalizeText(text)
  IN  IF Len(normalized) <= max_length
      THEN <<normalized>>
      ELSE LET sentences == SplitSentences(normalized)
           IN  IF sentences = <<>>
               THEN FixedWidthSlices(normalized, max_length)
               ELSE PackSentences(sentences, max_length).chunks

\* The chunks of PreprocessForTts without the separators inserted by packing.
ChunksWithoutSeparators(text, max_length) ==
  IF Branch(text, max_length) = "packed"
  THEN PackSentences(SplitSentences(NormalizeText(text)), max_length).plain
  ELSE PreprocessForTts(text, max_length)

\* Concatenation of a sequence of texts.
RECURSIVE Concat(_)
Concat(seqs) == IF seqs = <<>> THEN <<>> ELSE Head(seqs) \o Concat(Tail(seqs))

----------------------------------------------------------------------------
(* AudioProcessor                                                          *)

\* Result of get_audio_info for a file that cannot be probed (it raises).
ProbeFail == -1

\* Durations are counted in tenths of a second.
DurationValues == {19, 20, 150, 151}

\* sorted(paths): the paths of set S in increasing order.
RECURSIVE SortedSeq(_)
SortedSeq(S) ==
  IF S = {} THEN <<>> ELSE LET m == MinOf(S) IN <<m>> \o SortedSeq(S \ {m})

\* self.audio_files after discover_audio_files(): unchanged when the
\* directory does not exist, else the sorted *.wav entries of the directory.
CatalogAfterDiscover(exists, files, catalog) ==
  IF ~exists THEN catalog ELSE SortedSeq(files)

\* The value discover_audio_files() returns.
DiscoverResult(exists, files) ==
  IF ~exists THEN <<>> ELSE SortedSeq(files)

\* info["duration"] of get_audio_info(f), or ProbeFail when sf.info raises
\* (the file is unreadable or no longer exists).
ProbeOf(exists, files, dur, f) ==
  IF exists /\ f \in files THEN dur[f] ELSE ProbeFail

\* The loop "for audio_file in self.audio_files" of select_best_voice_samples
\* from catalog entry k on: a failed probe skips the rest of the iteration.
RECURSIVE SelectFrom(_, _, _, _, _, _, _)
SelectFrom(catalog, k, selected, probe, min_duration, max_duration, max_samples) ==
  IF k > Len(catalog)
  THEN selected
  ELSE LET d == probe[catalog[k]]
       IN  IF d = ProbeFail
           THEN SelectFrom(catalog, k + 1, selected, probe,
                           min_duration, max_duration, max_samples)
           ELSE LET sel == IF min_duration <= d /\ d <= max_duration
                           THEN Append(selected, catalog[k])
                           ELSE selected
                IN  IF Len(sel) >= max_samples
                    THEN sel
                    ELSE SelectFrom(catalog, k + 1, sel, probe,
                                    min_duration, max_duration, max_samples)

\* select_best_voice_samples on an audio processor whose catalog is catalog,
\* after the discovery it runs when the catalog is empty.
SelectBestVoiceSamples(catalog, probe, min_duration, max_duration, max_samples) ==
  SelectFrom(catalog, 1, <<>>, probe, min_duration, max_duration, max_samples)

\* The catalog select_best_voice_samples iterates over.
CatalogForSelection(exists, files, catalog) ==
  IF catalog = <<>> THEN CatalogAfterDiscover(exists, files, catalog) ELSE catalog

\* An entry of the tree under the sound directory: parent is "root" for an
\* entry directly under the sound directory, else the name of the
\* subdirectory that holds it; name is its file name.
Entry(parent, name) == [parent |-> parent, name |-> name]

\* Unicode code points of the characters of the entry names.
CodePoint(c) ==
  CASE c = "."  -> 46
    [] c = "/"  -> 47
    [] c = "A"  -> 65
    [] c = "B"  -> 66
    [] c = "S"  -> 83
    [] c = "V"  -> 86
    [] c = "W"  -> 87
    [] c = "a"  -> 97
    [] c = "b"  -> 98
    [] c = "k"  -> 107
    [] c = "s"  -> 115
    [] c = "t"  -> 116
    [] c = "u"  -> 117
    [] c = "v"  -> 118
    [] c = "w"  -> 119
    [] c = "x"  -> 120

\* a < b for two str values: at the first position where they differ, a has
\* the smaller code point or has ended.
StrLess(a, b) ==
  \E i \in 1..Len(b) :
    /\ \A j \in 1..(i - 1) : j <= Len(a) /\ a[j] = b[j]
    /\ \/ i > Len(a)
       \/ i <= Len(a) /\ CodePoint(a[i]) < CodePoint(b[i])

\* The pattern "*.wav" on a file name (case-sensitive).
MatchesWav(name) ==
  /\ Len(name) >= 4
  /\ SubSeq(name, Len(name) - 3, Len(name)) = <<".", "w", "a", "v">>

\* GlobWav that also descends into the subdirectories.
GlobWav_Recursive(entries) == {e \in entries : MatchesWav(e.name)}

\* self.sound_dir.glob("*.wav"): the entries directly under the sound
\* directory whose name matches the pattern.
GlobWav(entries) == {e \in entries : e.parent = "root" /\ MatchesWav(e.name)}

\* p < q for two Path values: the tuples of their parts are compared; the
\* paths of a glob of one directory differ in their last part only.
PathLess(p, q) ==
  \/ p.parent = q.parent /\ StrLess(p.name, q.name)
  \/ p.parent # q.parent /\ p.parent = "root"

\* sorted(audio_files)
RECURSIVE SortedPaths(_)
SortedPaths(S) ==
  IF S = {}
  THEN <<>>
  ELSE LET m == CHOOSE x \in S : \A y \in S \ {x} : PathLess(x, y)
       IN  <<m>> \o SortedPaths(S \ {m})

\* discover_audio_files(): the value it returns and self.audio_files after
\* the call, given the catalog before the call.
DiscoverAudioFiles(exists, entries, catalog) ==
  IF ~exists
  THEN [result |-> <<>>, audio_files |-> catalog]
  ELSE LET found == SortedPaths(GlobWav(entries))
       IN  [result |-> found, audio_files |-> found]

\* np.abs(audio).max() of a non-empty array.
AbsOf(x) == IF x < 0 THEN 0 - x ELSE x

MaxAbs(samples) == MaxOf({AbsOf(samples[k]) : k \in 1..Len(samples)})

\* NormalizeAudio with max_val taken without np.abs.
NormalizeAudio_NoAbs(samples) ==
  IF Len(samples) = 0
  THEN samples
  ELSE LET max_val == MaxOf({samples[k] : k \in 1..Len(samples)})
       IN  IF max_val > 0
           THEN [k \in 1..Len(samples) |-> <<samples[k], max_val>>]
           ELSE [k \in 1..Len(samples) |-> <<samples[k], 1>>]

\* normalize_audio(audio).  A sample of the input is an integer number of
\* amplitude units; a sample of the result is the quotient <<x, d>> = x / d
\* (the division x / x gives exactly 1, and |x / d| <= 1 when |x| <= d);
\* a sample that is not divided is <<x, 1>>.
NormalizeAudio(samples) ==
  IF Len(samples) = 0
  THEN samples
  ELSE LET max_val == MaxAbs(samples)
       IN  IF max_val > 0
           THEN [k \in 1..Len(samples) |-> <<samples[k], max_val>>]
           ELSE [k \in 1..Len(samples) |-> <<samples[k], 1>>]

----------------------------------------------------------------------------
(* VoiceCloner                                                             *)

\* min_duration and max_duration of _select_voice_samples, in tenths of a second.
MinDuration == 20

MaxDuration == 150

\* num_samples of _select_voice_samples.
NumSamples == 5

\* max_length of the preprocess_for_tts call of clone_voice.
MaxChunkLength == 500

SampleRate == 22050

\* pause_samples = int(sample_rate * pause_duration), pause_duration = 0.2
PauseSamples == (SampleRate * 2) \div 10

\* Optional values: <<>> is None, <<v>> is the value v.
None == <<>>

Some(v) == <<v>>

\* all_files[:num_samples]
FirstN(s, n) == SubSeq(s, 1, IF Len(s) < n THEN Len(s) ELSE n)

\* DefaultSpeaker taking the last sample of the list.
DefaultSpeaker_Last(samples) == samples[Len(samples)]

\* speaker_sample = voice_samples[0]
DefaultSpeaker(samples) == samples[1]

\* SelectVoiceSamples without the fallback to the first files of the catalog.
SelectVoiceSamples_NoFallback(catalog, probe, num_samples) ==
  SelectBestVoiceSamples(catalog, probe, MinDuration, MaxDuration, num_samples)

\* self._voice_samples after _select_voice_samples(num_samples), given the
\* catalog the selection iterates over.
SelectVoiceSamples(catalog, probe, num_samples) ==
  LET best == SelectBestVoiceSamples(catalog, probe, MinDuration, MaxDuration, num_samples)
  IN  IF best = <<>>
      THEN (IF catalog # <<>> THEN FirstN(catalog, num_samples) ELSE <<>>)
      ELSE best

\* StitchFrom with a pause after every segment, the last one included.
RECURSIVE StitchFrom_PauseAfterLast(_, _)
StitchFrom_PauseAfterLast(audio_segments, i) ==
  IF i > Len(audio_segments)
  THEN <<>>
  ELSE (IF audio_segments[i] > 0
        THEN <<[kind |-> "segment", chunk |-> i, len |-> audio_segments[i]],
               [kind |-> "pause", chunk |-> 0, len |-> PauseSamples]>>
        ELSE <<>>)
       \o StitchFrom_PauseAfterLast(audio_segments, i + 1)

\* normalized_segments built by the loop "for i, audio in enumerate(audio_segments)"
\* from segment i on.  A block is a segment (of the chunk it was synthesized
\* for) or a pause.
RECURSIVE StitchFrom(_, _)
StitchFrom(audio_segments, i) ==
  IF i > Len(audio_segments)
  THEN <<>>
  ELSE (IF audio_segments[i] > 0
        THEN <<[kind |-> "segment", chunk |-> i, len |-> audio_segments[i]]>>
               \o (IF i < Len(audio_segments)
                   THEN <<[kind |-> "pause", chunk |-> 0, len |-> PauseSamples]>>
                   ELSE <<>>)
        ELSE <<>>)
       \o StitchFrom(audio_segments, i + 1)

NormalizedSegments(audio_segments) == StitchFrom(audio_segments, 1)

\* Number of samples of a sequence of blocks.
RECURSIVE WaveLength(_)
WaveLength(blocks) ==
  IF blocks = <<>> THEN 0 ELSE Head(blocks).len + WaveLength(Tail(blocks))

\* Sum of the lengths of a sequence of waveforms.
RECURSIVE SumLen(_)
SumLen(segs) == IF segs = <<>> THEN 0 ELSE Head(segs) + SumLen(Tail(segs))

\* deepen_voice (src/audio_deepener.py): the pitch shift keeps the blocks.
DeepenVoice(blocks) == blocks

\* chunk_<i>_<stem>.wav in the temp directory; i counts from 0.
ChunkFile(i, stem) == [name |-> "chunk", i |-> i, stem |-> stem]

\* temp_output.wav in the working directory, used by TTSEngine.synthesize
\* when no output path is given.
TempOutput == [name |-> "temp_output", i |-> 0, stem |-> "none"]

----------------------------------------------------------------------------
(* State                                                                   *)

VARIABLES
  text,          \* text processor: the input text
  max_length,    \* text processor: max_length of the last preprocess_for_tts call
  tcall,         \* text processor: the method that was called on text, or "none"
  normalized,    \* text processor: result of normalize_text
  sentences,     \* text processor: result of split_sentences
  chunks,        \* text processor: result of preprocess_for_tts
  dirExists,     \* whether the sound directory exists
  dirFiles,      \* the *.wav paths directly under the sound directory
  duration,      \* duration of each path, or ProbeFail
  audio_files,   \* AudioProcessor.audio_files, the catalog
  scall,         \* audio processor: arguments of the last selection call, or None
  selected,      \* audio processor: result of the last selection call
  voice_samples, \* VoiceCloner._voice_samples (None or Some(list))
  init_error,    \* error raised by the last initialize() call, "" if none yet
  initialized,   \* whether an initialize() call has completed without raising
  pc,            \* clone_voice: "idle" (not called), "synth" (in the loop),
                 \* "returned" or "raised" (at its exit)
  req,           \* clone_voice: arguments of the request (text, speaker, output)
  speaker,       \* clone_voice: speaker_sample after the selection step
  text_chunks,   \* clone_voice: text_chunks
  audio_segments,        \* clone_voice: audio_segments (lengths)
  chunk_files_to_cleanup,\* clone_voice: chunk_files_to_cleanup
  tempFiles,     \* temporary files that exist on disk
  outputFiles,   \* output paths written by sf.write in the current request
  backendCalls,  \* calls of tts_to_file made by the current request
  stitched,      \* clone_voice: final_audio before deepen_voice
  result,        \* clone_voice: returned waveform (None or Some(blocks))
  error,         \* clone_voice: raised error, "" if none
  error_chunk,   \* clone_voice: the chunk index the raised error names
                 \* (None when it names none)
  preprocessed,  \* preprocess_for_tts(t, 500) of every request text t, computed
                 \* once (it depends on the text only)
  dirEntries,    \* audio processor: the entries of the tree under the sound
                 \* directory, by parent directory and name
  discovered,    \* audio processor: value returned by the last
                 \* discover_audio_files call, or None
  audio,         \* audio processor: argument of the normalize_audio call, or None
  normalized_audio, \* audio processor: result of the normalize_audio call, or None
  handed_out,    \* the list the last get_voice_samples() call of the caller
                 \* returned (None if none): whether it is the cached list
                 \* object itself, and its items
  _voice_cloner, \* app.py: the global _voice_cloner (None or the instance)
  cloners,       \* app.py: the VoiceCloner instances constructed so far
  callers        \* app.py: position of every thread inside synthesize_text

textVars == <<text, max_length, tcall, normalized, sentences, chunks>>

dirVars == <<dirExists, dirFiles, duration>>

audioVars == <<audio_files, scall, selected>>

requestVars == <<pc, req, speaker, text_chunks, audio_segments,
                 chunk_files_to_cleanup, tempFiles, outputFiles, backendCalls,
                 stitched, result, error, error_chunk>>

clonerVars == <<voice_samples, init_error, initialized, preprocessed>>

callVars == <<dirEntries, discovered, audio, normalized_audio, handed_out>>

appVars == <<_voice_cloner, cloners, callers>>

vars == <<textVars, dirVars, audioVars, clonerVars, requestVars, callVars, appVars>>

\* The state of a VoiceCloner and its AudioProcessor after construction.
ConstructedAudio ==
  /\ audio_files = <<>>
  /\ scall = None
  /\ selected = <<>>

ConstructedCloner ==
  /\ voice_samples = None
  /\ init_error = ""
  /\ initialized = FALSE
  /\ pc = "idle"
  /\ req = None
  /\ speaker = None
  /\ text_chunks = <<>>
  /\ audio_segments = <<>>
  /\ chunk_files_to_cleanup = <<>>
  /\ tempFiles = {}
  /\ outputFiles = {}
  /\ backendCalls = <<>>
  /\ stitched = <<>>
  /\ result = None
  /\ error = ""
  /\ error_chunk = None

\* The application is not started.
NoApp ==
  /\ _voice_cloner = None
  /\ cloners = <<>>
  /\ callers = <<>>

\* discover_audio_files and normalize_audio are not called on their own.
NoAudioCall ==
  /\ dirEntries = {}
  /\ discovered = None
  /\ audio = None
  /\ normalized_audio = None
  /\ handed_out = None

\* The text processor is not called.
NoTextCall ==
  /\ text = <<>>
  /\ max_length = 0
  /\ tcall = "none"
  /\ normalized = <<>>
  /\ sentences = <<>>
  /\ chunks = <<>>

----------------------------------------------------------------------------
(* Specification of the text processor: the input is any text of at most   *)
(* MaxTokens tokens, and one of the three methods is applied to it.        *)

\* The pieces input texts are built from: a letter, a space, a terminal
\* punctuation mark, a character outside the allow-list, an abbreviation.
Tokens == {<<"a">>, <<" ">>, <<"!">>, <<"#">>, <<"D", "r", ".">>}

RECURSIVE TokenTexts(_)
TokenTexts(n) ==
  IF n = 0
  THEN {<<>>}
  ELSE LET shorter == TokenTexts(n - 1)
       IN  shorter \cup {t \o tok : t \in shorter, tok \in Tokens}

TextInit ==
  /\ text \in TokenTexts(MaxTokens)
  /\ max_length = 0
  /\ tcall = "none"
  /\ normalized = <<>>
  /\ sentences = <<>>
  /\ chunks = <<>>
  /\ dirExists = FALSE
  /\ dirFiles = {}
  /\ duration = <<>>
  /\ ConstructedAudio
  /\ ConstructedCloner
  /\ preprocessed = <<>>
  /\ NoAudioCall
  /\ NoApp

NormalizeTextCall ==
  /\ tcall = "none"
  /\ tcall' = "normalize_text"
  /\ normalized' = NormalizeText(text)
  /\ UNCHANGED <<callVars, appVars, text, max_length, sentences, chunks,
               dirVars, audioVars, clonerVars, requestVars>>

SplitSentencesCall ==
  /\ tcall = "none"
  /\ tcall' = "split_sentences"
  /\ sentences' = SplitSentences(text)
  /\ UNCHANGED <<callVars, appVars, text, max_length, normalized, chunks,
               dirVars, audioVars, clonerVars, requestVars>>

PreprocessForTtsCall ==
  /\ tcall = "none"
  /\ \E m \in 1..MaxMaxLength :
       /\ max_length' = m
       /\ chunks' = PreprocessForTts(text, m)
  /\ tcall' = "preprocess_for_tts"
  /\ UNCHANGED <<callVars, appVars, text, normalized, sentences,
               dirVars, audioVars, clonerVars, requestVars>>

TextNext == NormalizeTextCall \/ SplitSentencesCall \/ PreprocessForTtsCall

SpecText == TextInit /\ [][TextNext]_vars

----------------------------------------------------------------------------
(* Specification of the audio processor: any content of the sound          *)
(* directory, then calls of discover_audio_files and                       *)
(* select_best_voice_samples.                                              *)

SelectFiles == 1..NumSelectFiles

\* The (min_duration, max_duration) pairs of the selection calls.
DurationRanges == {<<MinDuration, MaxDuration>>, <<MinDuration, MinDuration>>}

SelectInit ==
  /\ NoTextCall
  /\ dirExists \in BOOLEAN
  /\ dirFiles \in SUBSET SelectFiles
  /\ duration \in [SelectFiles -> DurationValues \cup {ProbeFail}]
  /\ ConstructedAudio
  /\ ConstructedCloner
  /\ preprocessed = <<>>
  /\ NoAudioCall
  /\ NoApp

\* The probe result of every path at this moment.
Probe == [f \in DOMAIN duration |-> ProbeOf(dirExists, dirFiles, duration, f)]

DiscoverAudioFilesCall ==
  /\ audio_files' = CatalogAfterDiscover(dirExists, dirFiles, audio_files)
  /\ UNCHANGED <<callVars, appVars, scall, selected, textVars, dirVars, clonerVars, requestVars>>

SelectBestVoiceSamplesCall ==
  \E range \in DurationRanges, max_samples \in 0..MaxMaxSamples :
    LET catalog == CatalogForSelection(dirExists, dirFiles, audio_files)
    IN  /\ audio_files' = catalog
        /\ selected' = SelectBestVoiceSamples(catalog, Probe, range[1], range[2],
                                              max_samples)
        /\ scall' = Some([min_duration |-> range[1], max_duration |-> range[2],
                          max_samples |-> max_samples])
        /\ UNCHANGED <<callVars, appVars, textVars, dirVars, clonerVars, requestVars>>

SelectNext == DiscoverAudioFilesCall \/ SelectBestVoiceSamplesCall

SpecSelect == SelectInit /\ [][SelectNext]_vars

----------------------------------------------------------------------------
(* Specification of discover_audio_files and normalize_audio on their own: *)
(* either any tree under the sound directory, or any short array of        *)
(* samples and no sound directory.                                         *)
(* The set dirFiles of the other specifications is GlobWav of the tree,    *)
(* its paths numbered in sorted order.                                     *)

\* File names directly under the sound directory.
RootNames ==
  { <<"a", ".", "w", "a", "v">>,
    <<"B", ".", "w", "a", "v">>,
    <<"b", ".", "w", "a", "v">>,
    <<"a", "b", ".", "w", "a", "v">>,
    <<"a", ".", "t", "x", "t">>,
    <<"a", ".", "W", "A", "V">>,
    <<"a", ".", "w", "a", "v", ".", "b", "a", "k">> }

\* The entries a tree is made of: the files above, and a.wav and A.wav in
\* the subdirectory "sub".
Entries ==
  {Entry("root", n) : n \in RootNames}
    \cup {Entry("sub", <<"a", ".", "w", "a", "v">>),
          Entry("sub", <<"A", ".", "w", "a", "v">>)}

\* The arrays normalize_audio is called with.
RECURSIVE SampleSeqs(_)
SampleSeqs(n) ==
  IF n = 0
  THEN {<<>>}
  ELSE LET shorter == SampleSeqs(n - 1)
       IN  shorter \cup {Append(a, x) : a \in shorter, x \in (0 - MaxAmp)..MaxAmp}

AudioInit ==
  /\ NoTextCall
  /\ dirExists \in BOOLEAN
  /\ dirEntries \in (IF dirExists THEN SUBSET Entries ELSE {{}})
  /\ audio \in (IF dirExists THEN {None} ELSE {None} \cup {Some(a) : a \in SampleSeqs(MaxAudioLen)})
  /\ dirFiles = {}
  /\ duration = <<>>
  /\ ConstructedAudio
  /\ ConstructedCloner
  /\ preprocessed = <<>>
  /\ discovered = None
  /\ normalized_audio = None
  /\ handed_out = None
  /\ NoApp

DiscoverEntriesCall ==
  LET r == DiscoverAudioFiles(dirExists, dirEntries, audio_files)
  IN  /\ discovered' = Some(r.result)
      /\ audio_files' = r.audio_files
      /\ UNCHANGED <<appVars, dirEntries, audio, normalized_audio, handed_out, scall, selected,
                     textVars, dirVars, clonerVars, requestVars>>

NormalizeAudioCall ==
  /\ audio # None
  /\ normalized_audio = None
  /\ normalized_audio' = Some(NormalizeAudio(audio[1]))
  /\ UNCHANGED <<appVars, dirEntries, discovered, audio, handed_out, textVars, dirVars, audioVars,
                 clonerVars, requestVars>>

\* The sound directory is removed between two calls (the test at line 42
\* of audio_processor.py reads the file system anew on every call).
RemoveSoundDirectory ==
  /\ dirExists
  /\ dirExists' = FALSE
  /\ dirEntries' = {}
  /\ UNCHANGED <<appVars, discovered, audio, normalized_audio, handed_out, textVars,
                 dirFiles, duration, audioVars, clonerVars, requestVars>>

AudioNext == DiscoverEntriesCall \/ NormalizeAudioCall \/ RemoveSoundDirectory

SpecAudio == AudioInit /\ [][AudioNext]_vars

----------------------------------------------------------------------------
(* Specification of the voice cloner: a sound directory that changes, and  *)
(* calls of initialize, get_voice_samples and clone_voice; a clone_voice   *)
(* request proceeds one backend call at a time.                            *)

Files == 1..NumFiles

\* Contents of the sound directory.
DirContents == {{}, {f \in Files : f <= 2}, Files}

\* Durations of the paths: all of the minimal duration; path 1 unreadable
\* and the others too long; path 1 unreadable, path 2 too short and the
\* others of the maximal duration.
DurationScenarios ==
  { [f \in Files |-> 20],
    [f \in Files |-> IF f = 1 THEN ProbeFail ELSE 151],
    [f \in Files |-> IF f = 1 THEN ProbeFail ELSE IF f = 2 THEN 19 ELSE 150] }

Rep(n, c) == [i \in 1..n |-> c]

\* A text of k sentences of SentenceLen letters, separated by "! ".
RECURSIVE SentencesText(_)
SentencesText(k) ==
  IF k = 1
  THEN Rep(SentenceLen, "a")
  ELSE SentencesText(k - 1) \o <<"!", " ">> \o Rep(SentenceLen, "a")

\* The texts of the requests: the empty text, a blank text, and the texts
\* of 1 to MaxSentences sentences.
RECURSIVE SentencesTexts(_)
SentencesTexts(k) ==
  IF k = 0 THEN <<>> ELSE Append(SentencesTexts(k - 1), SentencesText(k))

RequestTexts == <<<<>>, <<" ">>>> \o SentencesTexts(MaxSentences)

\* Explicit speaker_sample arguments (None: use the selected samples).
RequestSpeakers == {None, Some(1)}

\* output_path arguments, named by their stem.
RequestOutputs == {None, Some("out")}

\* preprocess_for_tts(t, max_length=500) of the first k request texts.
RECURSIVE RequestChunks(_)
RequestChunks(k) ==
  IF k = 0
  THEN <<>>
  ELSE Append(RequestChunks(k - 1), PreprocessForTts(RequestTexts[k], MaxChunkLength))

Init ==
  /\ NoTextCall
  /\ dirExists \in BOOLEAN
  /\ dirFiles \in (IF dirExists THEN DirContents ELSE {{}})
  /\ duration \in DurationScenarios
  /\ ConstructedAudio
  /\ ConstructedCloner
  /\ preprocessed = RequestChunks(Len(RequestTexts))
  /\ NoAudioCall
  /\ NoApp

Range(f) == {f[x] : x \in DOMAIN f}

\* No clone_voice call is in progress: the caller may make the next call.
Idle == pc = "idle"

\* The content of the sound directory changes, or the directory is removed
\* or created.  The synthesis loop does not read the directory, so the
\* changes that happen during a request are those seen after it.
ChangeDirectory ==
  /\ Idle
  /\ \E e \in BOOLEAN, c \in DirContents :
       /\ ~e => c = {}
       /\ <<e, c>> # <<dirExists, dirFiles>>
       /\ dirExists' = e
       /\ dirFiles' = c
  /\ UNCHANGED <<callVars, appVars, duration, textVars, audioVars, clonerVars, requestVars>>

\* initialize(): discover_audio_files() does not accept the keyword argument
\* require_transcript it is called with, so the call raises TypeError before
\* anything is changed.
Initialize ==
  /\ Idle
  /\ init_error' = "TypeError"
  /\ UNCHANGED <<callVars, appVars, voice_samples, initialized, preprocessed, textVars, dirVars,
                 audioVars, requestVars>>

\* self._voice_samples and the catalog after get_voice_samples().
VoiceSamplesAfterGet ==
  IF voice_samples = None
  THEN Some(SelectVoiceSamples(CatalogForSelection(dirExists, dirFiles, audio_files),
                               Probe, NumSamples))
  ELSE voice_samples

CatalogAfterGet ==
  IF voice_samples = None
  THEN CatalogForSelection(dirExists, dirFiles, audio_files)
  ELSE audio_files

\* GetVoiceSamplesResult returning the cached list itself.
GetVoiceSamplesResult_NoCopy(samples) == [cached |-> TRUE, items |-> samples]

\* return self._voice_samples.copy(): a new list with the same items.
GetVoiceSamplesResult(samples) == [cached |-> FALSE, items |-> samples]

\* get_voice_samples() called by the user of the cloner.
GetVoiceSamples ==
  /\ Idle
  /\ voice_samples' = VoiceSamplesAfterGet
  /\ audio_files' = CatalogAfterGet
  /\ handed_out' = Some(GetVoiceSamplesResult(voice_samples'[1]))
  /\ UNCHANGED <<appVars, dirEntries, discovered, audio, normalized_audio, scall, selected,
                 init_error, initialized, preprocessed, textVars, dirVars,
                 requestVars>>

\* The caller empties the list it got from get_voice_samples() (list.clear());
\* the cached list is emptied with it when it is the same object.
CallerClearsList ==
  /\ Idle
  /\ handed_out # None
  /\ handed_out[1].items # <<>>
  /\ handed_out' = Some([handed_out[1] EXCEPT !.items = <<>>])
  /\ voice_samples' = IF handed_out[1].cached THEN Some(<<>>) ELSE voice_samples
  /\ UNCHANGED <<appVars, dirEntries, discovered, audio, normalized_audio, init_error,
                 initialized, preprocessed, textVars, dirVars, audioVars,
                 requestVars>>

\* Whether path f exists.
Exists(f) == dirExists /\ f \in dirFiles

\* clone_voice up to the synthesis loop: validation of the text, chunking,
\* selection of the speaker sample.
CloneVoiceBegin ==
  /\ Idle
  /\ \E n \in 1..Len(RequestTexts), sp \in RequestSpeakers, out \in RequestOutputs :
     LET t == RequestTexts[n] IN
       /\ req' = Some([text |-> t, speaker_sample |-> sp, output_path |-> out])
       /\ audio_segments' = <<>>
       /\ chunk_files_to_cleanup' = <<>>
       /\ backendCalls' = <<>>
       /\ stitched' = <<>>
       /\ result' = None
       /\ error_chunk' = None
       /\ outputFiles' = {}
       /\ IF t = <<>>
          THEN /\ error' = "ValueError: Text cannot be empty"
               /\ pc' = "raised"
               /\ text_chunks' = <<>>
               /\ speaker' = None
               /\ UNCHANGED <<voice_samples, audio_files>>
          ELSE /\ text_chunks' = preprocessed[n]
               /\ IF sp = None
                  THEN /\ voice_samples' = VoiceSamplesAfterGet
                       /\ audio_files' = CatalogAfterGet
                       /\ IF voice_samples'[1] = <<>>
                          THEN /\ error' = "ValueError: No voice samples available"
                               /\ pc' = "raised"
                               /\ speaker' = None
                          ELSE /\ speaker' = Some(DefaultSpeaker(voice_samples'[1]))
                               /\ IF Exists(DefaultSpeaker(voice_samples'[1]))
                                  THEN error' = "" /\ pc' = "synth"
                                  ELSE error' = "FileNotFoundError" /\ pc' = "raised"
                  ELSE /\ UNCHANGED <<voice_samples, audio_files>>
                       /\ speaker' = sp
                       /\ IF Exists(sp[1])
                          THEN error' = "" /\ pc' = "synth"
                          ELSE error' = "FileNotFoundError" /\ pc' = "raised"
  /\ UNCHANGED <<callVars, appVars, scall, selected, init_error, initialized, preprocessed,
                 tempFiles, textVars, dirVars>>

\* The chunk index named by the error clone_voice propagates when the
\* backend fails on chunk k: synthesize re-raises the backend's exception
\* (line 136) and clone_voice has no except clause, so the caller gets the
\* backend's exception as it is.
PropagatedChunk(k) == None

\* The backend call of TTSEngine.synthesize raises: the file it was writing
\* may or may not exist, synthesize re-raises, nothing catches the error in
\* clone_voice, and the finally clause removes the chunk files.
\* The backend error is swallowed and the loop goes on with an empty segment.
BackendRaises_Swallowed(chunk_output, cleanup) ==
  \E written \in BOOLEAN :
    /\ error' = "BackendError"
    /\ error_chunk' = None
    /\ audio_segments' = Append(audio_segments, 0)
    /\ tempFiles' = tempFiles \cup (IF written THEN {chunk_output} ELSE {})
    /\ UNCHANGED pc

BackendRaises(chunk_output, cleanup) ==
  \E written \in BOOLEAN :
    /\ error' = "BackendError"
    /\ error_chunk' = PropagatedChunk(Len(audio_segments) + 1)
    /\ pc' = "raised"
    /\ tempFiles' = (tempFiles \cup (IF written THEN {chunk_output} ELSE {}))
                      \ Range(cleanup)
    /\ UNCHANGED audio_segments

\* One iteration of the synthesis loop: TTSEngine.synthesize on the next
\* chunk.  The backend returns a waveform or raises; when it raises, the
\* file it was writing may or may not exist, and the finally clause of
\* clone_voice removes the chunk files.
SynthesizeChunk ==
  /\ pc = "synth"
  /\ Len(audio_segments) < Len(text_chunks)
  /\ LET i == Len(audio_segments)
         chunk == text_chunks[i + 1]
         output_path == req[1].output_path
         chunk_output == IF output_path # None
                         THEN ChunkFile(i, output_path[1])
                         ELSE TempOutput
         cleanup == IF output_path # None
                    THEN Append(chunk_files_to_cleanup, chunk_output)
                    ELSE chunk_files_to_cleanup
     IN  IF chunk = <<>>
         THEN \* synthesize raises before the backend is called
              /\ error' = "ValueError: Text cannot be empty"
              /\ pc' = "raised"
              /\ chunk_files_to_cleanup' = cleanup
              /\ tempFiles' = tempFiles \ Range(cleanup)
              /\ UNCHANGED <<audio_segments, backendCalls, error_chunk>>
         ELSE /\ backendCalls' = Append(backendCalls,
                                        [chunk |-> i + 1, speaker_wav |-> speaker[1]])
              /\ chunk_files_to_cleanup' = cleanup
              /\ \/ \E len \in 0..MaxSegLen :
                      /\ audio_segments' = Append(audio_segments, len)
                      /\ tempFiles' = IF output_path # None
                                      THEN tempFiles \cup {chunk_output}
                                      ELSE tempFiles \ {TempOutput}
                      /\ UNCHANGED <<pc, error, error_chunk>>
                 \/ BackendRaises(chunk_output, cleanup)
  /\ UNCHANGED <<callVars, appVars, req, speaker, text_chunks, outputFiles, stitched, result,
                 textVars, dirVars, audioVars, clonerVars>>

\* After the loop: the finally clause, stitching, deepen_voice and the
\* optional save.  np.concatenate raises ValueError on an empty list.
CloneVoiceFinish ==
  /\ pc = "synth"
  /\ Len(audio_segments) = Len(text_chunks)
  /\ tempFiles' = tempFiles \ Range(chunk_files_to_cleanup)
  /\ LET normalized_segments == NormalizedSegments(audio_segments)
     IN  IF normalized_segments = <<>>
         THEN /\ error' = "ValueError: need at least one array to concatenate"
              /\ pc' = "raised"
              /\ UNCHANGED <<stitched, result, outputFiles>>
         ELSE /\ stitched' = normalized_segments
              /\ result' = Some(DeepenVoice(normalized_segments))
              /\ outputFiles' = IF req[1].output_path # None
                                THEN outputFiles \cup {req[1].output_path[1]}
                                ELSE outputFiles
              /\ pc' = "returned"
              /\ UNCHANGED error
  /\ UNCHANGED <<callVars, appVars, error_chunk, req, speaker, text_chunks, audio_segments, chunk_files_to_cleanup,
                 backendCalls, textVars, dirVars, audioVars, clonerVars>>

\* clone_voice exits: the caller has the waveform or the error, and the
\* local variables of the call are gone.
CloneVoiceReturn ==
  /\ pc \in {"returned", "raised"}
  /\ pc' = "idle"
  /\ req' = None
  /\ speaker' = None
  /\ text_chunks' = <<>>
  /\ audio_segments' = <<>>
  /\ chunk_files_to_cleanup' = <<>>
  /\ backendCalls' = <<>>
  /\ stitched' = <<>>
  /\ result' = None
  /\ error' = ""
  /\ error_chunk' = None
  /\ outputFiles' = {}
  /\ UNCHANGED <<callVars, appVars, tempFiles, textVars, dirVars, audioVars, clonerVars>>

Next ==
  \/ ChangeDirectory
  \/ Initialize
  \/ GetVoiceSamples
  \/ CallerClearsList
  \/ CloneVoiceBegin
  \/ SynthesizeChunk
  \/ CloneVoiceFinish
  \/ CloneVoiceReturn

Spec == Init /\ [][Next]_vars

----------------------------------------------------------------------------
(* Specification of the application: NumCallers threads call               *)
(* synthesize_text on the process-wide voice cloner of get_voice_cloner.   *)
(* A thread may be preempted between any two of the steps below; the sound *)
(* directory is missing or holds readable files, and does not change.      *)

Callers == 1..NumCallers

\* A VoiceCloner after construction; the instance is named by the caller
\* that constructed it.  init_error is the error its last initialize() call
\* raised, "" when it was not called.
NewCloner == [voice_samples |-> None, audio_files |-> <<>>, init_error |-> ""]

\* A caller that is not inside a call; outcome is what its last call
\* returned: "none" (no call yet), "audio" or "error" (the message or the
\* exception).  n is the text of its request, out its output_path.
IdleCaller(outcome) ==
  [pc |-> "idle", n |-> 0, inst |-> 0, done |-> 0, out |-> None,
   outcome |-> outcome]

\* The stem of the file NamedTemporaryFile creates for a call of
\* synthesize_text: a name no other existing file has.
TmpStem(c) == ToString(c)

\* The texts given to synthesize_text, as indices of RequestTexts: the empty
\* text, the blank text, the texts of 1 to MaxAppSentences sentences.
AppTexts == 1..(2 + MaxAppSentences)

AppInit ==
  /\ NoTextCall
  /\ dirExists \in BOOLEAN
  /\ dirFiles = (IF dirExists THEN Files ELSE {})
  /\ duration = [f \in Files |-> MinDuration]
  /\ ConstructedAudio
  /\ ConstructedCloner
  /\ preprocessed = RequestChunks(Len(RequestTexts))
  /\ NoAudioCall
  /\ _voice_cloner = None
  /\ cloners = [c \in Callers |-> None]
  /\ callers = [c \in Callers |-> IdleCaller("none")]

\* Everything the application steps leave alone, tempFiles excepted.
AppUnchanged ==
  UNCHANGED <<textVars, dirVars, audioVars, clonerVars, callVars, pc, req,
              speaker, text_chunks, audio_segments, chunk_files_to_cleanup,
              outputFiles, backendCalls, stitched, result, error, error_chunk>>

\* synthesize_text(text) is called: a blank text is answered at once, any
\* other text goes on to get_voice_cloner() with text.strip().
AppSynthesizeText(c) ==
  /\ callers[c].pc = "idle"
  /\ \E n \in AppTexts :
       callers' = [callers EXCEPT ![c] =
                     IF IsBlank(RequestTexts[n])
                     THEN IdleCaller("error")
                     ELSE [IdleCaller("none") EXCEPT !.pc = "get_voice_cloner", !.n = n]]
  /\ UNCHANGED <<_voice_cloner, cloners, tempFiles>>
  /\ AppUnchanged

\* get_voice_cloner(): the test "_voice_cloner is None".  When it fails the
\* global instance is returned and synthesize_text creates its output file.
AppGetVoiceCloner(c) ==
  /\ callers[c].pc = "get_voice_cloner"
  /\ callers' = [callers EXCEPT ![c] =
                   IF _voice_cloner = None
                   THEN [@ EXCEPT !.pc = "construct"]
                   ELSE [@ EXCEPT !.pc = "clone_voice", !.inst = _voice_cloner[1],
                                  !.out = Some(TmpStem(c))]]
  /\ UNCHANGED <<_voice_cloner, cloners, tempFiles>>
  /\ AppUnchanged

\* _voice_cloner = VoiceCloner(sound_dir="Sound")
AppConstruct(c) ==
  /\ callers[c].pc = "construct"
  /\ cloners' = [cloners EXCEPT ![c] = Some(NewCloner)]
  /\ _voice_cloner' = Some(c)
  /\ callers' = [callers EXCEPT ![c].pc = "initialize"]
  /\ UNCHANGED tempFiles
  /\ AppUnchanged

\* _voice_cloner.initialize(require_transcript=True), on the instance the
\* global holds now, raises TypeError, which get_voice_cloner re-raises
\* (lines 49-51) and synthesize_text turns into an error message (lines
\* 98-101); the global keeps the instance.
AppInitialize(c) ==
  /\ callers[c].pc = "initialize"
  /\ callers' = [callers EXCEPT ![c] = IdleCaller("error")]
  /\ cloners' = [cloners EXCEPT ![_voice_cloner[1]] =
                   Some([@[1] EXCEPT !.init_error = "TypeError"])]
  /\ UNCHANGED <<_voice_cloner, tempFiles>>
  /\ AppUnchanged

\* A thread calls clone_voice of the process-wide instance itself, with or
\* without an output path; the empty text is rejected at once (line 111).
AppCloneVoiceCall(c) ==
  /\ callers[c].pc = "idle"
  /\ _voice_cloner # None
  /\ \E n \in AppTexts, out \in RequestOutputs :
       callers' = [callers EXCEPT ![c] =
                     IF RequestTexts[n] = <<>>
                     THEN IdleCaller("error")
                     ELSE [IdleCaller("none") EXCEPT !.pc = "clone_voice", !.n = n,
                                                     !.inst = _voice_cloner[1],
                                                     !.out = out]]
  /\ UNCHANGED <<_voice_cloner, cloners, tempFiles>>
  /\ AppUnchanged

\* The request of caller c has entered clone_voice and not left it.
InCloneVoice(c) == callers[c].pc = "synth"

\* synthesize_simple -> clone_voice up to the synthesis loop, with the
\* output path of the caller's NamedTemporaryFile: chunking, and the speaker
\* sample from the instance's cache, filled by the first request.  Nothing
\* in synthesize_text, synthesize_simple or clone_voice waits for another
\* call to end.
AppCloneVoiceBegin(c) ==
  /\ callers[c].pc = "clone_voice"
  /\ LET i == callers[c].inst
         cl == cloners[i][1]
         catalog == IF cl.voice_samples = None
                    THEN CatalogForSelection(dirExists, dirFiles, cl.audio_files)
                    ELSE cl.audio_files
         samples == IF cl.voice_samples = None
                    THEN SelectVoiceSamples(catalog, Probe, NumSamples)
                    ELSE cl.voice_samples[1]
     IN  /\ cloners' = [cloners EXCEPT ![i] =
                          Some([cl EXCEPT !.voice_samples = Some(samples),
                                          !.audio_files = catalog])]
         /\ callers' = [callers EXCEPT ![c] =
                          IF samples = <<>> \/ ~Exists(DefaultSpeaker(samples))
                          THEN IdleCaller("error")
                          ELSE [@ EXCEPT !.pc = "synth"]]
  /\ UNCHANGED <<_voice_cloner, tempFiles>>
  /\ AppUnchanged

\* The path the backend writes chunk k (from 0) of the request of caller c
\* to: chunk_<k>_<stem>.wav, or temp_output.wav without output path.
AppChunkOutput(c, k) ==
  IF callers[c].out = None THEN TempOutput ELSE ChunkFile(k, callers[c].out[1])

\* chunk_files_to_cleanup of the request of caller c after upto iterations.
AppChunkFiles(c, upto) ==
  IF callers[c].out = None THEN {} ELSE {ChunkFile(i, callers[c].out[1]) : i \in 0..(upto - 1)}

\* One iteration of the synthesis loop of the request of caller c: an empty
\* chunk is rejected by TTSEngine.synthesize; else the backend returns a
\* waveform or raises, having written its file or not.  An error leaves
\* clone_voice through its finally clause.
AppSynthesizeChunk(c) ==
  /\ callers[c].pc = "synth"
  /\ callers[c].done < Len(preprocessed[callers[c].n])
  /\ LET k == callers[c].done
     IN  IF preprocessed[callers[c].n][k + 1] = <<>>
         THEN /\ callers' = [callers EXCEPT ![c] = IdleCaller("error")]
              /\ tempFiles' = tempFiles \ AppChunkFiles(c, k + 1)
         ELSE \/ /\ callers' = [callers EXCEPT ![c].done = k + 1]
                 /\ tempFiles' = IF callers[c].out = None
                                 THEN tempFiles \ {TempOutput}
                                 ELSE tempFiles \cup {AppChunkOutput(c, k)}
              \/ \E written \in BOOLEAN :
                   /\ callers' = [callers EXCEPT ![c] = IdleCaller("error")]
                   /\ tempFiles' = (tempFiles \cup (IF written THEN {AppChunkOutput(c, k)} ELSE {}))
                                     \ AppChunkFiles(c, k + 1)
  /\ UNCHANGED <<_voice_cloner, cloners>>
  /\ AppUnchanged

\* After the loop: the finally clause, stitching (np.concatenate raises
\* when every waveform the backend returned is empty), the save, and the
\* answer of synthesize_text.
AppCloneVoiceFinish(c) ==
  /\ callers[c].pc = "synth"
  /\ callers[c].done = Len(preprocessed[callers[c].n])
  /\ tempFiles' = tempFiles \ AppChunkFiles(c, callers[c].done)
  /\ \E nonempty \in BOOLEAN :
       callers' = [callers EXCEPT ![c] =
                     IdleCaller(IF nonempty THEN "audio" ELSE "error")]
  /\ UNCHANGED <<_voice_cloner, cloners>>
  /\ AppUnchanged

AppNext ==
  \E c \in Callers :
    \/ AppSynthesizeText(c)
    \/ AppGetVoiceCloner(c)
    \/ AppConstruct(c)
    \/ AppInitialize(c)
    \/ AppCloneVoiceCall(c)
    \/ AppCloneVoiceBegin(c)
    \/ AppSynthesizeChunk(c)
    \/ AppCloneVoiceFinish(c)

SpecApp == AppInit /\ [][AppNext]_vars

----------------------------------------------------------------------------
(* Properties of the text processor, checked under SpecText                *)

HasBoundary(s) == \E i \in 1..Len(s) : BoundaryStartsAt(s, i)

\* C2: the chunks of preprocess_for_tts, concatenated in order after the
\* separators inserted by packing are stripped, reproduce normalize_text of
\* the input exactly.
C2_ChunksReproduceNormalizedText ==
  tcall = "preprocess_for_tts" =>
    Concat(ChunksWithoutSeparators(text, max_length)) = NormalizeText(text)

\* C3: when every sentence of the normalized text is shorter than max_length
\* and the normalized text is longer than max_length, there are at least
\* two chunks and no chunk is longer than max_length.
C3_PackedChunksWithinMaxLength ==
  LET norm == NormalizeText(text)
      sents == SplitSentences(norm)
  IN  ( /\ tcall = "preprocess_for_tts"
        /\ Len(norm) > max_length
        /\ \A k \in 1..Len(sents) : Len(sents[k]) < max_length )
      => /\ Len(chunks) >= 2
         /\ \A k \in 1..Len(chunks) : Len(chunks[k]) <= max_length

\* C4: a normalized text longer than max_length without sentence boundary is
\* returned as more than one chunk, the consecutive slices of max_length
\* characters.
C4_NoBoundaryFixedWidth ==
  LET norm == NormalizeText(text)
  IN  ( /\ tcall = "preprocess_for_tts"
        /\ Len(norm) > max_length
        /\ ~HasBoundary(norm) )
      => /\ Len(chunks) > 1
         /\ chunks = FixedWidthSlices(norm, max_length)

\* C5: preprocess_for_tts of the empty text returns no chunk, and no
\* returned chunk is the empty string.
C5_NoEmptyChunk ==
  tcall = "preprocess_for_tts" =>
    /\ text = <<>> => chunks = <<>>
    /\ \A k \in 1..Len(chunks) : chunks[k] # <<>>

\* C6 as stated: an input text of length <= max_length is returned as exactly
\* one chunk equal to its normalized text.
C6_ShortInputSingleChunk ==
  (tcall = "preprocess_for_tts" /\ Len(text) <= max_length)
    => chunks = <<NormalizeText(text)>>

\* C6 amended: an input whose normalized text has length <= max_length is
\* returned as exactly one chunk equal to its normalized text.
C6_ShortNormalizedSingleChunk ==
  (tcall = "preprocess_for_tts" /\ Len(NormalizeText(text)) <= max_length)
    => chunks = <<NormalizeText(text)>>

\* An input that abbreviation expansion lengthens to exactly max_length,
\* returned as one chunk.
C6_Witness ==
  /\ tcall = "preprocess_for_tts"
  /\ Len(text) < Len(NormalizeText(text))
  /\ Len(NormalizeText(text)) = max_length
  /\ chunks = <<NormalizeText(text)>>

\* C7: the result of normalize_text has no leading or trailing whitespace and
\* no two consecutive whitespace characters, and is empty for empty input.
C7_NormalizedWhitespace ==
  tcall = "normalize_text" =>
    /\ text = <<>> => normalized = <<>>
    /\ normalized # <<>> =>
         ~IsSpace(normalized[1]) /\ ~IsSpace(normalized[Len(normalized)])
    /\ \A i \in 1..(Len(normalized) - 1) :
         ~(IsSpace(normalized[i]) /\ IsSpace(normalized[i + 1]))

\* The indices at which a maximal run of . ! ? followed by whitespace starts.
BoundaryRuns(s) ==
  {i \in 1..Len(s) : BoundaryStartsAt(s, i) /\ (i = 1 \/ s[i - 1] \notin Terminal)}

\* Piece j of text s cut at its boundary runs (runs and the whitespace after
\* them removed), j = 1 .. number of runs + 1.
PieceOf(s, j) ==
  LET runs == SortedSeq(BoundaryRuns(s))
      lo == IF j = 1 THEN 1 ELSE BoundaryEnd(s, runs[j - 1]) + 1
      hi == IF j > Len(runs) THEN Len(s) ELSE runs[j] - 1
  IN  SubSeq(s, lo, hi)

\* C17: split_sentences returns, in text order, the stripped non-empty pieces
\* of the text cut at every run of . ! ? followed by whitespace: no sentence
\* is empty, has leading or trailing whitespace or contains such a run; k runs
\* between non-empty pieces give k+1 sentences; the empty text gives no
\* sentence.
C17_SplitSentences ==
  tcall = "split_sentences" =>
    LET k == Cardinality(BoundaryRuns(text))
        pieces == [j \in 1..(k + 1) |-> Strip(PieceOf(text, j))]
    IN  /\ text = <<>> => sentences = <<>>
        /\ text # <<>> => sentences = SelectSeq(pieces, LAMBDA p : p # <<>>)
        /\ \A n \in 1..Len(sentences) :
             /\ sentences[n] # <<>>
             /\ ~IsSpace(sentences[n][1])
             /\ ~IsSpace(sentences[n][Len(sentences[n])])
             /\ ~HasBoundary(sentences[n])
        /\ (text # <<>> /\ \A j \in 1..(k + 1) : pieces[j] # <<>>)
             => Len(sentences) = k + 1

\* A text with two boundary runs, one of them of two punctuation marks, and
\* an empty piece that is dropped.
C17_Witness ==
  /\ tcall = "split_sentences"
  /\ Cardinality(BoundaryRuns(text)) = 2
  /\ \E i \in BoundaryRuns(text) : text[i + 1] \in Terminal
  /\ Len(sentences) = 1

----------------------------------------------------------------------------
(* Properties of the audio processor, checked under SpecSelect             *)

\* The catalog files whose probed duration is in [min_duration, max_duration].
InRange(catalog, probe, min_duration, max_duration) ==
  SelectSeq(catalog, LAMBDA f : /\ probe[f] # ProbeFail
                                /\ min_duration <= probe[f]
                                /\ probe[f] <= max_duration)

\* C8: select_best_voice_samples returns the catalog files whose probed
\* duration is in [min, max], in catalog order, truncated to the first
\* max_samples of them, and never more than max_samples paths.
C8_SelectBestVoiceSamples ==
  scall # None =>
    /\ selected = FirstN(InRange(audio_files, Probe, scall[1].min_duration,
                                 scall[1].max_duration),
                         scall[1].max_samples)
    /\ Len(selected) <= scall[1].max_samples

\* The same for the calls with max_samples >= 1.
SelectBestVoiceSamplesPositive ==
  (scall # None /\ scall[1].max_samples >= 1) =>
    /\ selected = FirstN(InRange(audio_files, Probe, scall[1].min_duration,
                                 scall[1].max_duration),
                         scall[1].max_samples)
    /\ Len(selected) <= scall[1].max_samples

----------------------------------------------------------------------------
(* Properties of the voice cloner, checked under Spec                      *)

\* C1: when the backend fails on chunk k of a request, the request raises
\* that error, returns no waveform, writes no output file, and the backend
\* calls of the request are those for chunks 1..k.
C1_BackendFailureAborts ==
  error = "BackendError" =>
    /\ pc = "raised"
    /\ result = None
    /\ stitched = <<>>
    /\ outputFiles = {}
    /\ Len(backendCalls) = Len(audio_segments) + 1
    /\ Len(backendCalls) <= Len(text_chunks)
    /\ \A k \in 1..Len(backendCalls) : backendCalls[k].chunk = k

\* The backend failed on chunk 2 of a 3-chunk request with an output path.
C1_Witness ==
  /\ error = "BackendError"
  /\ pc = "raised"
  /\ Len(text_chunks) = 3
  /\ Len(backendCalls) = 2
  /\ req[1].output_path # None

\* No file of the catalog probes with a duration in [MinDuration, MaxDuration].
NoneInRange(catalog) ==
  InRange(catalog, Probe, MinDuration, MaxDuration) = <<>>

\* C9: a selection that finds no catalog file in [2.0, 15.0] sets the
\* VoiceSampleSet to the first NumSamples entries of the catalog; with a
\* non-empty catalog the VoiceSampleSet is never empty; clone_voice raises
\* 'No voice samples available' only when the catalog is empty.
C9_FallbackSelection ==
  /\ [][ (voice_samples = None /\ voice_samples' # None /\ NoneInRange(audio_files'))
           => voice_samples'[1] = FirstN(audio_files', 5) ]_vars
  /\ []( (voice_samples # None /\ audio_files # <<>>) => voice_samples[1] # <<>> )
  /\ []( error = "ValueError: No voice samples available" => audio_files = <<>> )

\* The fallback selected the first 5 files of a longer catalog, none of
\* which is in range.
C9_Witness ==
  /\ voice_samples # None
  /\ Len(audio_files) > 5
  /\ NoneInRange(audio_files)
  /\ voice_samples[1] = FirstN(audio_files, 5)

\* The segment blocks of a stitched waveform, in order.
SegmentBlocks(blocks) == SelectSeq(blocks, LAMBDA b : b.kind = "segment")

\* C10: for n >= 1 non-empty segments the stitched waveform has length
\* sum(len(segment_i)) + (n-1)*4410 with the segments in chunk order; for
\* n = 1 it is the segment alone.
C10_StitchedLength ==
  (pc = "returned" /\ \A k \in 1..Len(audio_segments) : audio_segments[k] > 0) =>
    LET n == Len(audio_segments)
    IN  /\ n >= 1
        /\ WaveLength(stitched) = SumLen(audio_segments) + (n - 1) * 4410
        /\ SegmentBlocks(stitched) =
             [k \in 1..n |-> [kind |-> "segment", chunk |-> k, len |-> audio_segments[k]]]
        /\ n = 1 => stitched = <<[kind |-> "segment", chunk |-> 1, len |-> audio_segments[1]]>>

\* A returned request with 3 non-empty segments of different lengths.
C10_Witness ==
  /\ pc = "returned"
  /\ Len(audio_segments) = 3
  /\ \A k \in 1..3 : audio_segments[k] > 0
  /\ audio_segments[1] # audio_segments[2]
  /\ WaveLength(stitched) = SumLen(audio_segments) + 8820

\* C11: a clone_voice request with empty or blank text is rejected with the
\* invalid-input error without any backend call, and leaves the cached
\* VoiceSampleSet, the catalog and the files on disk unchanged.
C11_BlankTextRejected ==
  /\ []( (req # None /\ IsBlank(req[1].text)) =>
           /\ backendCalls = <<>>
           /\ outputFiles = {}
           /\ pc # "returned"
           /\ pc = "raised" => error = "ValueError: Text cannot be empty" )
  /\ [][ (req' # None /\ IsBlank(req'[1].text)) =>
           UNCHANGED <<voice_samples, audio_files, tempFiles>> ]_vars

\* The temporary paths the current request handed to the backend: one chunk
\* file per backend call when an output path is given, else temp_output.wav.
RequestTempPaths ==
  IF req = None
  THEN {}
  ELSE IF req[1].output_path # None
       THEN {ChunkFile(k - 1, req[1].output_path[1]) : k \in 1..Len(backendCalls)}
       ELSE (IF backendCalls # <<>> THEN {TempOutput} ELSE {})

\* C12: when clone_voice returns or raises, none of the temporary files of
\* the request exists, neither its chunk files nor temp_output.wav.
C12_NoTempFileAtExit ==
  pc \in {"returned", "raised"} => tempFiles \cap RequestTempPaths = {}

\* C13: the backend is called, and clone_voice returns a waveform, only on
\* an instance whose initialize() has completed without error.
C13_BackendOnlyWhenReady ==
  (backendCalls # <<>> \/ pc = "returned") => initialized

\* A step in which an initialize() call raises for the first time or
\* completes.
InitializeStep ==
  init_error' # init_error \/ (initialized' /\ ~initialized)

\* C14: initialize() on a sound directory with at least one audio file
\* completes without error and leaves a non-empty VoiceSampleSet; on an
\* empty or missing directory it raises the no-audio-files error and
\* selects no VoiceSampleSet.
C14_InitializeOutcome ==
  [][ InitializeStep =>
        IF dirExists /\ dirFiles # {}
        THEN /\ initialized'
             /\ init_error' = init_error
             /\ voice_samples' # None
             /\ voice_samples'[1] # <<>>
        ELSE /\ ~initialized'
             /\ init_error' = "ValueError: No audio files found"
             /\ voice_samples' = voice_samples ]_vars

----------------------------------------------------------------------------
(* Properties of discover_audio_files and normalize_audio, checked under   *)
(* SpecAudio                                                               *)

\* The path of an entry as a string: "S/<name>" or "S/<subdirectory>/<name>".
PathString(e) ==
  <<"S", "/">>
    \o (IF e.parent = "root" THEN <<>> ELSE <<"s", "u", "b", "/">>)
    \o e.name

\* C15: discover_audio_files returns exactly the entries with the .wav
\* extension directly under the sound directory, each once, in lexicographic
\* order of their paths; on a missing directory it returns the empty sequence.
C15_DiscoverAudioFiles ==
  [][DiscoverEntriesCall =>
       LET r == discovered'[1]
       IN  /\ ~dirExists => r = <<>>
           /\ dirExists =>
                /\ Range(r) = {e \in dirEntries : e.parent = "root" /\ MatchesWav(e.name)}
                /\ \A i, j \in 1..Len(r) :
                     i < j => StrLess(PathString(r[i]), PathString(r[j]))]_vars

\* A discovery that returned four files, in a tree that also holds files it
\* must leave out.
C15_Witness ==
  /\ discovered # None
  /\ Len(discovered[1]) = 4
  /\ Cardinality(dirEntries) = Cardinality(Entries)

\* C16: normalize_audio returns an array of the length of its input; for an
\* input with a non-zero sample every sample is the input sample scaled by
\* 1/max|x| and the maximum absolute value of the result is exactly 1; an
\* empty input is returned empty and an all-zero input all-zero, and nothing
\* is divided by zero.
C16_NormalizeAudio ==
  normalized_audio # None =>
    LET a == audio[1]
        r == normalized_audio[1]
        n == Len(a)
    IN  /\ Len(r) = n
        /\ a = <<>> => r = <<>>
        /\ \A k \in 1..n : r[k][2] > 0
        /\ (\A k \in 1..n : a[k] = 0) => (\A k \in 1..n : r[k][1] = 0)
        /\ (\E k \in 1..n : a[k] # 0) =>
             /\ \A k \in 1..n : r[k][1] * MaxAbs(a) = a[k] * r[k][2]
             /\ \A k \in 1..n : AbsOf(r[k][1]) <= r[k][2]
             /\ \E k \in 1..n : AbsOf(r[k][1]) = r[k][2]

\* An array whose largest sample in absolute value is negative was normalized.
C16_Witness ==
  /\ normalized_audio # None
  /\ audio[1] = <<0 - 2, 1, 0>>
  /\ normalized_audio[1][1] = <<0 - 2, 2>>

\* C18: a request without explicit speaker sample that returns has made
\* exactly one backend call per chunk, in chunk order, each with the first
\* element of the cached VoiceSampleSet; while the loop runs every backend
\* call made has returned its segment.
C18_BackendCallSequence ==
  /\ pc = "synth" => Len(backendCalls) = Len(audio_segments)
  /\ (pc = "returned" /\ req[1].speaker_sample = None) =>
       /\ Len(backendCalls) = Len(text_chunks)
       /\ \A k \in 1..Len(backendCalls) :
            backendCalls[k] = [chunk |-> k, speaker_wav |-> voice_samples[1][1]]

\* A returned request of three chunks, with several samples cached.
C18_Witness ==
  /\ pc = "returned"
  /\ req[1].speaker_sample = None
  /\ Len(text_chunks) = 3
  /\ Len(voice_samples[1]) >= 2
  /\ Len(backendCalls) = 3

\* C19: once the VoiceSampleSet is computed no step changes it or re-runs
\* the selection (the catalog is not rebuilt), whatever happens to the sound
\* directory and whatever a caller does to a list get_voice_samples gave it.
C19_VoiceSamplesCached ==
  [][ voice_samples # None => UNCHANGED <<voice_samples, audio_files>> ]_vars

\* A request runs on the cached VoiceSampleSet although a selection on the
\* present directory would give another one, and the caller has emptied the
\* list it was handed.
C19_Witness ==
  /\ voice_samples # None
  /\ voice_samples[1] # <<>>
  /\ handed_out # None
  /\ handed_out[1].items = <<>>
  /\ pc = "synth"
  /\ req[1].speaker_sample = None
  /\ SelectVoiceSamples(SortedSeq(dirFiles), Probe, NumSamples) # voice_samples[1]

----------------------------------------------------------------------------
(* Properties of the application, checked under SpecApp                    *)

\* C20: at any moment at most one clone_voice request is executing inside a
\* given VoiceCloner instance, also when several callers invoke
\* synthesize_text concurrently.
C20_OneRequestPerInstance ==
  \A a, b \in Callers :
    (InCloneVoice(a) /\ InCloneVoice(b) /\ callers[a].inst = callers[b].inst)
      => a = b

\* The temporary paths the request of caller c has handed to the backend so
\* far.
AppTempPaths(c) == {AppChunkOutput(c, k) : k \in 0..(callers[c].done - 1)}

\* C21: two clone_voice requests that overlap in time have no temporary
\* path in common, with or without output path and whatever the names of
\* the output files.
C21_DisjointTempPaths ==
  \A a, b \in Callers :
    (a # b /\ InCloneVoice(a) /\ InCloneVoice(b))
      => AppTempPaths(a) \cap AppTempPaths(b) = {}

\* The same for the requests made through synthesize_text.
DisjointTempPathsOfSynthesizeText ==
  \A a, b \in Callers :
    ( /\ a # b /\ InCloneVoice(a) /\ InCloneVoice(b)
      /\ callers[a].out = Some(TmpStem(a)) /\ callers[b].out = Some(TmpStem(b)) )
      => AppTempPaths(a) \cap AppTempPaths(b) = {}

\* C22: in the stitched waveform of a request that returns, a pause block
\* stands only between two segment blocks: the first and the last block are
\* segments and no two pauses are adjacent, whatever waveforms the backend
\* returned, empty ones included.
C22_PausesOnlyBetweenSegments ==
  pc = "returned" =>
    /\ stitched # <<>>
    /\ stitched[1].kind = "segment"
    /\ stitched[Len(stitched)].kind = "segment"
    /\ \A k \in 1..(Len(stitched) - 1) :
         ~(stitched[k].kind = "pause" /\ stitched[k + 1].kind = "pause")

\* C23: when the backend fails on chunk k, the error clone_voice propagates
\* names k, the index of the failing chunk.
C23_ErrorNamesChunk ==
  error = "BackendError" => error_chunk = Some(Len(backendCalls))

\* C24: a failing initialize() of the process-wide cloner is surfaced on
\* the call that made it, and no later get_voice_cloner() call returns an
\* instance whose initialization failed.
C24_FailedInstanceNeverReturned ==
  [][ \A c \in Callers :
        /\ (callers[c].pc = "initialize" /\ callers'[c].pc # "initialize")
             => callers'[c].outcome = "error"
        /\ (callers[c].pc = "get_voice_cloner" /\ callers'[c].pc = "clone_voice")
             => cloners[callers'[c].inst][1].init_error = "" ]_vars

\* The abbreviation occurs in s at index i in any letter case.
OccursAt(s, i, abbrev) ==
  /\ i + Len(abbrev) - 1 <= Len(s)
  /\ \A k \in 1..Len(abbrev) : Lower(s[i + k - 1]) = Lower(abbrev[k])

\* The abbreviation occurs in s at index i as a whole word: no word
\* character stands right before it or right after it.
WholeWordAt(s, i, abbrev) ==
  /\ OccursAt(s, i, abbrev)
  /\ ~IsWordAt(s, i - 1)
  /\ ~IsWordAt(s, i + Len(abbrev))

\* C25: normalize_text replaces every whole-word occurrence, in any letter
\* case, of an abbreviation of the table by its expansion (what is left of
\* such an occurrence in the result is the expansion itself), also before a
\* space and at the end of the text; a text in which no abbreviation occurs
\* is not expanded.
C25_AbbreviationsExpanded ==
  tcall = "normalize_text" =>
    /\ \A e \in 1..Len(Abbreviations) : \A i \in 1..Len(normalized) :
         WholeWordAt(normalized, i, Abbreviations[e][1])
           => SubSeq(normalized, i, i + Len(Abbreviations[e][1]) - 1)
                = Abbreviations[e][2]
    /\ (\A e \in 1..Len(Abbreviations) : \A i \in 1..Len(text) :
          ~OccursAt(text, i, Abbreviations[e][1]))
         => normalized = Strip(CleanSpecialChars(NormalizeDiacritics(
                           CollapseWhitespace(Strip(text)))))

\* C26: after every call of discover_audio_files the catalog kept in the
\* AudioProcessor (audio_files) is the sequence that call returned, also
\* when the directory was removed since the call before.
C26_CatalogEqualsResult ==
  discovered # None => audio_files = discovered[1]

====
